---- MODULE Spec2Model ----
\* QuizGen (Smart Quiz Generator): the student's quiz page, the link round trip,
\* the routes and the teacher's dashboard, as state machines over the React
\* component state and the requests in flight.
\*
\* Conventions
\*   - a JavaScript string is a sequence of characters, each a TLA+ string; the
\*     character "U+2019" stands for a code point above U+00FF;
\*   - a nullable value is a sequence of length at most one: Null is <<>>;
\*   - question indexes are positions 1..n (the code's index + 1);
\*   - an optional string field that the code only ever tests for truthiness
\*     (image_description) is the empty string when absent.
EXTENDS Integers, Sequences, FiniteSets, TLC

VARIABLES
    auth,            \* AuthProvider: [user, loading]
    location,        \* HashRouter: the path held in the URL's hash
    page,            \* the route element that is mounted
    homePage,        \* HomePage: [link, alert]
    quizPage,        \* QuizPage: [quiz, answers, result, isLoading, error, imageLoadingStates]
    navigation,      \* the latest navigation: [by, to, link]
    fetchQuiz,       \* the quiz fetch of QuizPage's effect: [status, id]
    imageBatch,      \* where generateImagesForQuestions stands: none, awaiting, done
    imageRequests,   \* the image promises of the batch, by question index
    createQuizPage,  \* CreateQuizPage: [quizTitle, loading, error, generatedQuiz, handleSubmit]
    quizzesTable,    \* the quizzes table: [rows, nextId]
    quizContext,     \* QuizProvider: [quizzes, loading, error, fetchQuizzes, deleteQuiz]
    quizHistory,     \* QuizHistory: [confirmDelete, deletingId, toast]
    libCall          \* a call of generateQuiz or getPassageForQuestion: [fn, input, outcome]

\* the state of the pages a student sees
student == <<location, page, homePage, quizPage, navigation, fetchQuiz, imageBatch,
             imageRequests>>

\* the state of the teacher's dashboard and of the table behind it
dashboard == <<createQuizPage, quizzesTable, quizContext, quizHistory>>

vars == <<auth, student, dashboard, libCall>>

Null == <<>>

Some(x) == <<x>>

\* ---------------------------------------------------------------- strings

IsSpace(c) == c = " "

RECURSIVE TrimStart(_)
TrimStart(s) ==
    IF s # <<>> /\ IsSpace(Head(s)) THEN TrimStart(Tail(s)) ELSE s

RECURSIVE TrimEnd(_)
TrimEnd(s) ==
    IF s # <<>> /\ IsSpace(s[Len(s)]) THEN TrimEnd(SubSeq(s, 1, Len(s) - 1)) ELSE s

\* String.prototype.trim
Trim(s) == TrimEnd(TrimStart(s))

LowerChar(c) ==
    CASE c = "A" -> "a"
      [] c = "B" -> "b"
      [] OTHER -> c

\* String.prototype.toLowerCase
ToLowerCase(s) == [i \in DOMAIN s |-> LowerChar(s[i])]

\* String.prototype.startsWith
StartsWith(s, p) == Len(s) >= Len(p) /\ SubSeq(s, 1, Len(p)) = p

\* String.prototype.substring(n) with a 0-based n
SubstringFrom(s, n) == SubSeq(s, n + 1, Len(s))

\* String.prototype.indexOf for a single character: 0-based, -1 when absent
IndexOfChar(s, c) ==
    IF \E i \in DOMAIN s : s[i] = c
    THEN (CHOOSE i \in DOMAIN s : s[i] = c /\ \A j \in 1..(i - 1) : s[j] # c) - 1
    ELSE -1

\* ---------------------------------------------------------------- quiz data

MultipleChoice == "multiple-choice"

FillInTheBlank == "fill-in-the-blank"

Essay == "essay"

QuestionTypes == {MultipleChoice, FillInTheBlank, Essay}

\* a question as stored in quiz_data: no image_url, no imageError yet
Question(type, correct, description) ==
    [type |-> type, correct_answer |-> correct, image_description |-> description,
     image_url |-> Null, imageError |-> FALSE]

\* ---------------------------------------------------------------- QuizPage.handleSubmit

NormalizeNoTrim(s) == ToLowerCase(s)

\* (x || '').trim().toLowerCase()
Normalize(s) == ToLowerCase(Trim(s))

\* answers[index] || ''
RecordedAnswer(answers, index) ==
    IF index \in DOMAIN answers THEN answers[index] ELSE <<>>

IsGradable(q) == q.type = MultipleChoice \/ q.type = FillInTheBlank

\* the forEach of handleSubmit, from question i on, with the counters so far
RECURSIVE GradeLoop(_, _, _, _, _)
GradeLoop(questions, answers, i, score, gradableQuestions) ==
    IF i > Len(questions)
    THEN [score |-> score, gradableQuestions |-> gradableQuestions]
    ELSE IF IsGradable(questions[i])
         THEN LET userAnswer == Normalize(RecordedAnswer(answers, i))
                  correctAnswer == Normalize(questions[i].correct_answer)
              IN GradeLoop(questions, answers, i + 1,
                           IF userAnswer = correctAnswer THEN score + 1 ELSE score,
                           gradableQuestions + 1)
         ELSE GradeLoop(questions, answers, i + 1, score, gradableQuestions)

\* the QuizResult handleSubmit passes to setResult
ComputeResult(quiz, answers) ==
    LET counted == GradeLoop(quiz.questions, answers, 1, 0, 0)
    IN [score |-> counted.score,
        total |-> Len(quiz.questions),
        answers |-> answers,
        gradableQuestions |-> counted.gradableQuestions]

\* the note shown whatever the counts
EssayNoteAlways(result) == Some(result.total - result.gradableQuestions)

\* ResultsView: the number in "(n essay questions require manual review)",
\* Null when the note is not rendered
EssayNote(result) ==
    IF result.gradableQuestions < result.total
    THEN Some(result.total - result.gradableQuestions)
    ELSE Null

\* ---------------------------------------------------------------- image generation

WordChars == {"a", "b", "c", "t", "x", "A", "B", "_", "0", "1"}

\* the characters /[^\w\s,.-]/g leaves in place
IsPromptChar(c) == c \in WordChars \/ IsSpace(c) \/ c \in {",", ".", "-"}

\* description.replace(/[^\w\s,.-]/g, "")
StripNonPrompt(s) == SelectSeq(s, IsPromptChar)

\* the Pollinations URL generateQuestionImage builds from the description
ImageUrl(description) ==
    [kind |-> "pollinations", text |-> Trim(StripNonPrompt(description))]

\* the longest description the placeholder shows in full
PlaceholderMaxLen == 150

Ellipsis == <<".", ".", ".">>

\* description.length > 150 ? description.substring(0, 150) + '...' : description
PlaceholderText(description) ==
    IF Len(description) > PlaceholderMaxLen
    THEN SubSeq(description, 1, PlaceholderMaxLen) \o Ellipsis
    ELSE description

IsLatin1(c) == c # "U+2019"

\* btoa throws InvalidCharacterError on a character above U+00FF; the rest of
\* the SVG template is ASCII
BtoaThrows(description) ==
    \E i \in DOMAIN PlaceholderText(description) : ~IsLatin1(PlaceholderText(description)[i])

\* the empty string in place of the placeholder
PlaceholderImageEmpty(description) == [kind |-> "empty", text |-> <<>>]

\* generatePlaceholderImage, where btoa returns
PlaceholderImage(description) ==
    [kind |-> "placeholder", text |-> PlaceholderText(description)]

\* the string ''
EmptyUrl == [kind |-> "empty", text |-> <<>>]

Truthy(url) == url.kind # "empty"

\* the promise of generateQuestionImage right after testImage.src is set
NewImageRequest(description) ==
    [description |-> description, loadEvent |-> "none", timerFired |-> FALSE,
     first |-> "none", settled |-> Null]

\* resolve(value) on the promise of request r: the first resolve wins
Resolve(r, value) == IF r.settled = Null THEN [r EXCEPT !.settled = Some(value)] ELSE r

NoteEvent(r, event) == IF r.first = "none" THEN [r EXCEPT !.first = event] ELSE r

\* testImage.onload
OnLoad(r) ==
    Resolve([NoteEvent(r, "load") EXCEPT !.loadEvent = "load"], ImageUrl(r.description))

\* resolve(generatePlaceholderImage(description)): the argument is evaluated
\* first, so when btoa throws the callback ends without calling resolve
ResolvePlaceholder(r) ==
    IF BtoaThrows(r.description) THEN r ELSE Resolve(r, PlaceholderImage(r.description))

\* testImage.onerror
OnError(r) == ResolvePlaceholder([NoteEvent(r, "error") EXCEPT !.loadEvent = "error"])

\* the setTimeout callback
OnTimeout(r) == ResolvePlaceholder([NoteEvent(r, "timeout") EXCEPT !.timerFired = TRUE])

\* question.image_description && question.image_description.trim()
NeedsImage(q) == q.image_description # <<>> /\ Trim(q.image_description) # <<>>

\* the indexes of questionsNeedingImages
QuestionsNeedingImages(quizData) ==
    {i \in DOMAIN quizData.questions : NeedsImage(quizData.questions[i])}

\* the value one element of imagePromises fulfils with
ImageResult(index, imageUrl) ==
    IF Truthy(imageUrl)
    THEN [index |-> index, imageUrl |-> imageUrl, success |-> TRUE]
    ELSE [index |-> index, imageUrl |-> EmptyUrl, success |-> FALSE]

\* the loadingStates object the batch starts with
LoadingStates(quizData) == [i \in QuestionsNeedingImages(quizData) |-> TRUE]

\* the question a result is written to
TargetIndexByPosition(requests, index) ==
    Cardinality({j \in DOMAIN requests : j <= index})

TargetIndex(requests, index) == index

\* the updater passed to setQuiz once Promise.allSettled has returned
ApplyImageResults(prevQuiz, requests) ==
    LET results == {ImageResult(i, requests[i].settled[1]) : i \in DOMAIN requests}
        written == {TargetIndex(requests, r.index) : r \in results}
        ResultFor(j) == CHOOSE r \in results : TargetIndex(requests, r.index) = j
    IN [prevQuiz EXCEPT !.questions =
            [j \in DOMAIN prevQuiz.questions |->
                IF j \in written
                THEN [prevQuiz.questions[j] EXCEPT
                        !.image_url = Some(ResultFor(j).imageUrl),
                        !.imageError = ~ResultFor(j).success]
                ELSE prevQuiz.questions[j]]]

\* ---------------------------------------------------------------- URLs and routes

\* String.prototype.indexOf: 0-based, -1 when absent
IndexOf(s, sub) ==
    LET hits == {i \in 0..(Len(s) - Len(sub)) : SubSeq(s, i + 1, i + Len(sub)) = sub}
    IN IF hits = {} THEN -1 ELSE CHOOSE i \in hits : \A j \in hits : i <= j

RootPath == <<"/">>

LoginPath == <<"/", "l", "o", "g", "i", "n">>

AdminPath == <<"/", "a", "d", "m", "i", "n">>

QuizPrefix == <<"/", "q", "u", "i", "z", "/">>

SchemeChars == {"h", "t", "p", "s"}

\* whether new URL(text) returns: the text, less the spaces around it, starts
\* with a scheme and a colon (a relative reference throws TypeError)
IsAbsoluteURL(text) ==
    LET t == Trim(text)
        colon == IndexOfChar(t, ":")
    IN colon >= 1 /\ \A i \in 1..colon : t[i] \in SchemeChars

\* new URL(text): everything before the first '#', and the fragment after it
ParseURL(text) ==
    LET t == Trim(text)
        h == IndexOfChar(t, "#")
    IN [base |-> IF h = -1 THEN t ELSE SubSeq(t, 1, h),
        fragment |-> IF h = -1 THEN Null ELSE Some(SubstringFrom(t, h + 1))]

\* the hash getter: '' for no fragment or an empty one, else '#' and the fragment
Hash(url) ==
    IF url.fragment = Null \/ url.fragment[1] = <<>>
    THEN <<>>
    ELSE <<"#">> \o url.fragment[1]

\* the fragment percent-encode set, over the characters of the model
RECURSIVE FragmentEncode(_)
FragmentEncode(s) ==
    IF s = <<>> THEN <<>>
    ELSE (IF Head(s) = " " THEN <<"%", "2", "0">> ELSE <<Head(s)>>) \o FragmentEncode(Tail(s))

\* the hash setter: '' removes the fragment, one leading '#' is dropped
SetHash(url, value) ==
    IF value = <<>>
    THEN [url EXCEPT !.fragment = Null]
    ELSE [url EXCEPT !.fragment =
            Some(FragmentEncode(IF Head(value) = "#" THEN Tail(value) ELSE value))]

\* the href getter
Href(url) ==
    url.base \o (IF url.fragment = Null THEN <<>> ELSE <<"#">> \o url.fragment[1])

\* `/quiz/${quizId}`
QuizPath(quizId) == QuizPrefix \o quizId

\* QuizHistory.getShareableLink, with window.location.href as a parameter
getShareableLink(quizId, href) ==
    LET url == ParseURL(href)
        adminPathIndex == IndexOf(Hash(url), AdminPath)
        cut == IF adminPathIndex # -1
               THEN SetHash(url, SubSeq(Hash(url), 1, adminPathIndex))
               ELSE url
    IN Href(SetHash(cut, QuizPath(quizId)))

HashPathKeepHash(url) == Hash(url)

\* url.hash.substring(1)
HashPath(url) == SubstringFrom(Hash(url), 1)

\* navigate(link.trim()) whatever the text
LinkOutcomeUnchecked(link) == [navigate |-> Some(Trim(link)), alert |-> Null]

\* what HomePage.handleLinkSubmit does with the text of the input:
\* the path it navigates to, or the alert it shows
LinkOutcome(link) ==
    IF IsAbsoluteURL(link)
    THEN LET path == HashPath(ParseURL(link))
         IN IF StartsWith(path, QuizPrefix)
            THEN [navigate |-> Some(path), alert |-> Null]
            ELSE [navigate |-> Null, alert |-> Some("Invalid quiz link format.")]
    ELSE LET trimmed == Trim(link)
             path == IF StartsWith(trimmed, <<"#">>) THEN SubstringFrom(trimmed, 1) ELSE trimmed
         IN IF StartsWith(path, QuizPrefix)
            THEN [navigate |-> Some(path), alert |-> Null]
            ELSE [navigate |-> Null, alert |-> Some("Please paste a valid quiz link.")]

\* the <Route> of App that matches a path
MatchRoute(path) ==
    CASE path = RootPath -> "HomePage"
      [] path = LoginPath -> "LoginPage"
      [] StartsWith(path, QuizPrefix)
           /\ Len(path) > Len(QuizPrefix)
           /\ IndexOfChar(SubstringFrom(path, Len(QuizPrefix)), "/") = -1 -> "QuizPage"
      [] path = AdminPath -> "AdminLayout"
      [] OTHER -> "blank"

\* useParams().quizId on the /quiz/:quizId route
QuizIdParam(path) == SubstringFrom(path, Len(QuizPrefix))

GuardedWithQuiz(route) == route \in {"AdminLayout", "QuizPage"}

\* the routes App wraps in <ProtectedRoute>
Guarded(route) == route = "AdminLayout"

\* ProtectedRoute: its children for a logged-in user, else a redirect to /login
ProtectedRoute(user) == IF user = Null THEN "redirect" ELSE "children"

\* where a navigation to `path` ends: LoginPage sends a logged-in user to
\* /admin, a guarded route sends a visitor to /login
Routed(path, user) ==
    IF MatchRoute(path) = "LoginPage" /\ user # Null THEN AdminPath
    ELSE IF Guarded(MatchRoute(path)) /\ ProtectedRoute(user) = "redirect" THEN LoginPath
    ELSE path

\* AuthProvider renders its children only when the session check is over
Render(path, a) == IF a.loading THEN "none" ELSE MatchRoute(path)

\* ---------------------------------------------------------------- the quizzes table

IdA == <<"7">>

IdB == <<"4", "2">>

IdC == <<"4">>

\* an id no row has (a deleted quiz)
IdGone == <<"9">>

DescCat == <<"c", "a", "t">>

\* a description with a typographic apostrophe
DescApostrophe == <<"c", "U+2019", "t">>

DescBlank == <<" ", " ">>

\* 151 characters, the last one above U+00FF
DescLong == [i \in 1..(PlaceholderMaxLen + 1) |-> IF i <= PlaceholderMaxLen THEN "x" ELSE "U+2019"]

\* quiz_data of the stored rows, by id
QuizStore ==
    (IdA :> [questions |-> <<Question(Essay, <<"b">>, DescBlank),
                             Question(MultipleChoice, <<"a">>, DescCat),
                             Question(FillInTheBlank, <<" ", "A">>, DescApostrophe)>>])
    @@ (IdB :> [questions |-> <<Question(FillInTheBlank, <<"b">>, DescLong)>>])
    @@ (IdC :> [questions |-> <<Question(MultipleChoice, <<"B", " ">>, <<>>),
                                Question(Essay, <<>>, <<>>)>>])

QuizIds == DOMAIN QuizStore

\* the paths a browser is opened at or goes back to
AllPaths == {RootPath, LoginPath, AdminPath} \cup {QuizPath(id) : id \in QuizIds \cup {IdGone}}

Origin == <<"h", "t", "t", "p", "s", ":", "/", "/", "x", "/">>

\* window.location.href while the dashboard is shown
AdminHref == Origin \o <<"#">> \o AdminPath

\* what a student types or pastes into the HomePage input
LinkInputs ==
    {getShareableLink(id, AdminHref) : id \in QuizIds \cup {IdGone}}
    \cup {<<" ", "#">> \o QuizPath(IdA), QuizPath(IdC) \o <<" ">>, Origin, <<"x">>, <<>>}
    \cup {AdminHref, <<"#", "#">> \o QuizPath(IdA)}

\* what a student types or picks as an answer
AnswerValues == {<<"a">>, <<"B">>}

Teacher == "teacher"

\* ---------------------------------------------------------------- initial states

InitHomePage == [link |-> <<>>, alert |-> Null]

InitQuizPage ==
    [quiz |-> Null, answers |-> <<>>, result |-> Null, isLoading |-> TRUE,
     error |-> Null, imageLoadingStates |-> <<>>]

NoFetch == [status |-> "idle", id |-> <<>>]

\* a navigation: the handler that asked for it, the path it asked for and, for
\* handleLinkSubmit, the text that was submitted
Navigation(by, to, link) == [by |-> by, to |-> to, link |-> link]

\* CreateQuizPage's useState values; handleSubmit is the latest call of the
\* handler: where it stands, the user and the quiz it holds, and what the
\* generation and the insert answered
InitCreateQuizPage ==
    [quizTitle |-> <<>>, loading |-> FALSE, error |-> Null, generatedQuiz |-> Null,
     handleSubmit |-> [pc |-> "idle", user |-> Null, generation |-> "none",
                       quizData |-> Null, insert |-> "none", row |-> Null]]

\* no call of deleteQuiz yet
NoDelete ==
    [pc |-> "idle", id |-> Null, response |-> "none", alert |-> Null, reason |-> Null]

\* QuizProvider's useState values, its fetch and the latest call of deleteQuiz
InitQuizContext ==
    [quizzes |-> <<>>, loading |-> FALSE, error |-> Null,
     fetchQuizzes |-> [pc |-> "idle", user |-> Null],
     deleteQuiz |-> NoDelete]

\* QuizHistory's useState values (toast is the latest toast pushed)
InitQuizHistory == [confirmDelete |-> Null, deletingId |-> Null, toast |-> Null]

\* an empty table whose first row will get id 1
InitQuizzesTable == [rows |-> <<>>, nextId |-> 1]

\* no call of a library function
NoCall == [fn |-> "none", input |-> Null, outcome |-> Null]

InitDashboard ==
    /\ libCall = NoCall
    /\ createQuizPage = InitCreateQuizPage
    /\ quizzesTable = InitQuizzesTable
    /\ quizContext = InitQuizContext
    /\ quizHistory = InitQuizHistory

Init ==
    /\ InitDashboard
    /\ auth = [user |-> Null, loading |-> TRUE]
    /\ location \in AllPaths
    /\ page = "none"
    /\ homePage = InitHomePage
    /\ quizPage = InitQuizPage
    /\ navigation = Navigation("open", location, <<>>)
    /\ fetchQuiz = NoFetch
    /\ imageBatch = "none"
    /\ imageRequests = <<>>

\* ---------------------------------------------------------------- navigation

\* QuizPage's effect on mount: fetchQuiz() for the quizId of the route
QuizPageMounted(path) ==
    IF QuizIdParam(path) = <<>>
    THEN /\ quizPage' = [InitQuizPage EXCEPT !.error = Some("No quiz ID provided."),
                                             !.isLoading = FALSE]
         /\ fetchQuiz' = NoFetch
    ELSE /\ quizPage' = InitQuizPage
         /\ fetchQuiz' = [status |-> "pending", id |-> QuizIdParam(path)]

\* the router shows `path` under the auth state a: a page that stays mounted keeps
\* its state, a page that is mounted starts from its initial state
Show(path, a) ==
    /\ location' = Routed(path, a.user)
    /\ page' = Render(location', a)
    /\ IF page' = page /\ location' = location
       THEN UNCHANGED <<homePage, quizPage, fetchQuiz, imageBatch, imageRequests>>
       ELSE /\ homePage' = InitHomePage
            /\ imageBatch' = "none"
            /\ imageRequests' = <<>>
            /\ IF page' = "QuizPage"
               THEN QuizPageMounted(location')
               ELSE quizPage' = InitQuizPage /\ fetchQuiz' = NoFetch

\* AuthProvider's getSession() returns: a stored session or none
GetSession(user) ==
    /\ auth.loading
    /\ auth' = [user |-> user, loading |-> FALSE]
    /\ Show(location, auth')
    /\ UNCHANGED navigation
    /\ UNCHANGED <<dashboard, libCall>>

\* LoginPage.handleLogin with accepted credentials: the auth listener sets the
\* user, the page navigates to /admin
HandleLogin ==
    /\ page = "LoginPage"
    /\ auth' = [auth EXCEPT !.user = Some(Teacher)]
    /\ Show(AdminPath, auth')
    /\ navigation' = Navigation("handleLogin", AdminPath, <<>>)
    /\ UNCHANGED <<dashboard, libCall>>

\* AuthProvider.logout from the dashboard header
Logout ==
    /\ page = "AdminLayout"
    /\ auth' = [auth EXCEPT !.user = Null]
    /\ Show(location, auth')
    /\ navigation' = Navigation("ProtectedRoute", LoginPath, <<>>)
    /\ UNCHANGED <<dashboard, libCall>>

\* Header: navigate("/") and navigate("/login")
HeaderNavigate(path) ==
    /\ page # "none"
    /\ Show(path, auth)
    /\ navigation' = Navigation("Header", path, <<>>)
    /\ UNCHANGED auth
    /\ UNCHANGED <<dashboard, libCall>>

\* LoginPage.handleBack: navigate(-1) to an earlier entry, or navigate('/')
HandleBack(path) ==
    /\ page = "LoginPage"
    /\ Show(path, auth)
    /\ navigation' = Navigation("handleBack", path, <<>>)
    /\ UNCHANGED auth
    /\ UNCHANGED <<dashboard, libCall>>

\* the input of HomePage changes
SetLink(text) ==
    /\ page = "HomePage"
    /\ homePage' = [homePage EXCEPT !.link = text]
    /\ UNCHANGED <<auth, location, page, quizPage, navigation, fetchQuiz, imageBatch,
                   imageRequests>>
    /\ UNCHANGED <<dashboard, libCall>>

\* HomePage.handleLinkSubmit
handleLinkSubmit ==
    /\ page = "HomePage"
    /\ LET outcome == LinkOutcome(homePage.link)
       IN IF outcome.navigate # Null
          THEN /\ Show(outcome.navigate[1], auth)
               /\ navigation' = Navigation("handleLinkSubmit", outcome.navigate[1],
                                            homePage.link)
          ELSE /\ homePage' = [homePage EXCEPT !.alert = outcome.alert]
               /\ UNCHANGED <<location, page, quizPage, navigation, fetchQuiz,
                              imageBatch, imageRequests>>
    /\ UNCHANGED auth
    /\ UNCHANGED <<dashboard, libCall>>

\* ---------------------------------------------------------------- QuizPage

\* what QuizPage renders
QuizView ==
    IF quizPage.isLoading THEN "loader"
    ELSE IF quizPage.error # Null \/ quizPage.quiz = Null THEN "error"
    ELSE IF quizPage.result # Null THEN "results"
    ELSE "form"

\* the image section QuizPage renders for a question: nothing without an
\* image_description, else the spinner, the image, the "image generation
\* failed" description box or the default description box
ImageSection(q, isImageLoading) ==
    IF q.image_description = <<>> THEN "none"
    ELSE IF isImageLoading THEN "loading"
    ELSE IF q.image_url # Null /\ Truthy(q.image_url[1]) THEN "image"
    ELSE IF q.imageError THEN "failed"
    ELSE "description"

IsLoadingUntilImagesSettle(quizData) == QuestionsNeedingImages(quizData) # {}

\* setIsLoading(false) right after setQuiz, before generateImagesForQuestions
IsLoadingAfterFetch(quizData) == FALSE

\* generateImagesForQuestions up to its await, called with the quiz that was
\* just put in state: the loading states and one request per question that
\* needs an image, all started in the same task
generateImagesForQuestions(quizData) ==
    /\ imageRequests' = [i \in QuestionsNeedingImages(quizData) |->
                            NewImageRequest(quizData.questions[i].image_description)]
    /\ imageBatch' = IF QuestionsNeedingImages(quizData) = {} THEN "none" ELSE "awaiting"
    /\ quizPage' = [quizPage EXCEPT
            !.quiz = Some(quizData),
            !.isLoading = IsLoadingAfterFetch(quizData),
            !.imageLoadingStates =
                IF QuestionsNeedingImages(quizData) = {} THEN @ ELSE LoadingStates(quizData)]

\* fetchQuiz: the select returns the row
FetchQuizData ==
    /\ page = "QuizPage"
    /\ fetchQuiz.status = "pending"
    /\ fetchQuiz.id \in QuizIds
    /\ generateImagesForQuestions(
          [id |-> fetchQuiz.id, questions |-> QuizStore[fetchQuiz.id].questions])
    /\ fetchQuiz' = [fetchQuiz EXCEPT !.status = "done"]
    /\ UNCHANGED <<auth, location, page, homePage, navigation>>
    /\ UNCHANGED <<dashboard, libCall>>

\* fetchQuiz: the select returns an error (no such row, or the request failed)
FetchQuizError(message) ==
    /\ page = "QuizPage"
    /\ fetchQuiz.status = "pending"
    /\ quizPage' = [quizPage EXCEPT
            !.error = Some(IF message # "" THEN message ELSE "Failed to fetch quiz."),
            !.isLoading = FALSE]
    /\ fetchQuiz' = [fetchQuiz EXCEPT !.status = "done"]
    /\ UNCHANGED <<auth, location, page, homePage, navigation, imageBatch, imageRequests>>
    /\ UNCHANGED <<dashboard, libCall>>

\* fetchQuiz: the select returns neither an error nor a row
FetchQuizNoData ==
    /\ page = "QuizPage"
    /\ fetchQuiz.status = "pending"
    /\ fetchQuiz.id \notin QuizIds
    /\ quizPage' = [quizPage EXCEPT !.error = Some("Quiz not found."), !.isLoading = FALSE]
    /\ fetchQuiz' = [fetchQuiz EXCEPT !.status = "done"]
    /\ UNCHANGED <<auth, location, page, homePage, navigation, imageBatch, imageRequests>>
    /\ UNCHANGED <<dashboard, libCall>>

\* the rest of the task in which a callback of a request ran. Once every promise
\* of the batch has settled, Promise.allSettled returns in the same task and
\* generateImagesForQuestions goes on: one setQuiz, then the loading states are
\* cleared
AfterImageEvent(requests) ==
    /\ imageRequests' = requests
    /\ IF \A i \in DOMAIN requests : requests[i].settled # Null
       THEN /\ quizPage' = [quizPage EXCEPT
                    !.quiz = IF @ = Null THEN @
                             ELSE Some(ApplyImageResults(@[1], requests)),
                    !.imageLoadingStates = <<>>]
            /\ imageBatch' = "done"
       ELSE UNCHANGED <<quizPage, imageBatch>>
    /\ UNCHANGED <<auth, location, page, homePage, navigation, fetchQuiz>>
    /\ UNCHANGED <<dashboard, libCall>>

\* the test image of question i loads
ImageLoaded(i) ==
    /\ imageBatch = "awaiting"
    /\ i \in DOMAIN imageRequests
    /\ imageRequests[i].loadEvent = "none"
    /\ AfterImageEvent([imageRequests EXCEPT ![i] = OnLoad(@)])

\* the test image of question i fails to load
ImageFailed(i) ==
    /\ imageBatch = "awaiting"
    /\ i \in DOMAIN imageRequests
    /\ imageRequests[i].loadEvent = "none"
    /\ AfterImageEvent([imageRequests EXCEPT ![i] = OnError(@)])

\* the timer of question i's request fires
ImageTimedOut(i) ==
    /\ imageBatch = "awaiting"
    /\ i \in DOMAIN imageRequests
    /\ ~imageRequests[i].timerFired
    /\ AfterImageEvent([imageRequests EXCEPT ![i] = OnTimeout(@)])

\* the indexes of the questions on the page
QuestionIndexes ==
    IF quizPage.quiz = Null THEN {} ELSE DOMAIN quizPage.quiz[1].questions

\* QuizPage.handleInputChange
QuizPage_handleInputChange(questionIndex, value) ==
    /\ page = "QuizPage"
    /\ QuizView = "form"
    /\ questionIndex \in QuestionIndexes
    /\ quizPage' = [quizPage EXCEPT !.answers =
            [k \in DOMAIN @ \cup {questionIndex} |-> IF k = questionIndex THEN value ELSE @[k]]]
    /\ UNCHANGED <<auth, location, page, homePage, navigation, fetchQuiz, imageBatch,
                   imageRequests>>
    /\ UNCHANGED <<dashboard, libCall>>

\* QuizPage.handleSubmit
QuizPage_handleSubmit ==
    /\ page = "QuizPage"
    /\ QuizView = "form"
    /\ quizPage' = [quizPage EXCEPT
            !.result = Some(ComputeResult(quizPage.quiz[1], quizPage.answers))]
    /\ UNCHANGED <<auth, location, page, homePage, navigation, fetchQuiz, imageBatch,
                   imageRequests>>
    /\ UNCHANGED <<dashboard, libCall>>

\* the "Go Home" and "Back to Home" links of the error and results views
QuizPageLinkHome ==
    /\ page = "QuizPage"
    /\ QuizView \in {"error", "results"}
    /\ Show(RootPath, auth)
    /\ navigation' = Navigation("Link", RootPath, <<>>)
    /\ UNCHANGED auth
    /\ UNCHANGED <<dashboard, libCall>>

\* ---------------------------------------------------------------- the application

\* the indexes a stored quiz has
StoredIndexes == UNION {DOMAIN QuizStore[id].questions : id \in QuizIds}

Next ==
    \/ \E user \in {Null, Some(Teacher)} : GetSession(user)
    \/ HandleLogin
    \/ Logout
    \/ \E path \in {RootPath, LoginPath} : HeaderNavigate(path)
    \/ \E path \in AllPaths : HandleBack(path)
    \/ \E text \in LinkInputs : SetLink(text)
    \/ handleLinkSubmit
    \/ FetchQuizData
    \/ \E message \in {"", "Cannot coerce the result to a single JSON object"} :
          FetchQuizError(message)
    \/ FetchQuizNoData
    \/ \E i \in StoredIndexes : ImageLoaded(i)
    \/ \E i \in StoredIndexes : ImageFailed(i)
    \/ \E i \in StoredIndexes : ImageTimedOut(i)
    \/ \E i \in StoredIndexes, value \in AnswerValues : QuizPage_handleInputChange(i, value)
    \/ QuizPage_handleSubmit
    \/ QuizPageLinkHome

Spec == Init /\ [][Next]_vars

\* the browser ends every image load and fires every timer
FairSpec ==
    /\ Spec
    /\ \A i \in StoredIndexes : WF_vars(ImageLoaded(i) \/ ImageFailed(i))
    /\ \A i \in StoredIndexes : WF_vars(ImageTimedOut(i))

\* ---------------------------------------------------------------- grading, over all small quizzes

\* the most questions a quiz of SpecGrade has
MaxQuestions == 2

GradeCorrectAnswers == {<<>>, <<"a">>, <<" ", "A", " ">>}

GradeInputs == {<<>>, <<" ">>, <<"a">>, <<"A", " ">>, <<"b">>}

GradeQuestions ==
    {Question(type, correct, <<>>) :
        type \in {MultipleChoice, FillInTheBlank}, correct \in GradeCorrectAnswers}
    \cup {Question(Essay, <<"a">>, <<>>)}

GradeQuizzes == UNION {[1..n -> GradeQuestions] : n \in 0..MaxQuestions}

\* QuizPage showing a fetched quiz without images, no answer recorded yet
InitGrade ==
    /\ InitDashboard
    /\ auth = [user |-> Null, loading |-> FALSE]
    /\ location = QuizPath(IdC)
    /\ page = "QuizPage"
    /\ homePage = InitHomePage
    /\ \E questions \in GradeQuizzes :
          quizPage = [InitQuizPage EXCEPT
                        !.quiz = Some([id |-> IdC, questions |-> questions]),
                        !.isLoading = FALSE]
    /\ navigation = Navigation("open", location, <<>>)
    /\ fetchQuiz = [status |-> "done", id |-> IdC]
    /\ imageBatch = "none"
    /\ imageRequests = <<>>

NextGrade ==
    \/ \E i \in 1..MaxQuestions, value \in GradeInputs : QuizPage_handleInputChange(i, value)
    \/ QuizPage_handleSubmit

SpecGrade == InitGrade /\ [][NextGrade]_vars

\* ---------------------------------------------------------------- the teacher's dashboard

\* CreateQuizPage and QuizHistory inside QuizProvider, for every value of
\* useAuth().user. The route guard that wraps them is not assumed: a handler may
\* run when the session has ended. One fetchQuizzes and one deleteQuiz are in
\* flight at a time.

\* the most rows the quizzes table ever gets
MaxQuizzes == 2

TitleInputs == {<<>>, <<" ">>, <<"Q">>}

\* what the model answers: the quiz data without id
GeneratedQuizzes == {[title |-> <<"Q">>], [title |-> <<"R">>]}

\* the messages of the errors the table's API answers with; "" is an error
\* without message
ApiMessages == {"", "new row violates row-level security policy"}

\* the ids of the rows, newest first: .order('created_at', { ascending: false })
RECURSIVE NewestFirst(_)
NewestFirst(ids) ==
    IF ids = {} THEN <<>>
    ELSE LET newest == CHOOSE i \in ids : \A j \in ids : j <= i
         IN <<newest>> \o NewestFirst(ids \ {newest})

\* fetchQuizzes's formattedQuizzes for the rows of `user`
FormattedQuizzes(table, user) ==
    LET own == {id \in DOMAIN table.rows : table.rows[id].user_id = user}
        order == NewestFirst(own)
    IN [k \in DOMAIN order |->
            [id |-> order[k], title |-> table.rows[order[k]].quiz_data.title]]

\* prev.filter((q) => q.id !== id)
RECURSIVE FilterOut(_, _)
FilterOut(quizzes, id) ==
    IF quizzes = <<>> THEN <<>>
    ELSE IF Head(quizzes).id = id THEN FilterOut(Tail(quizzes), id)
    ELSE <<Head(quizzes)>> \o FilterOut(Tail(quizzes), id)

\* fetchQuizzes up to its await, for a user
StartFetchQuizzes(context, user) ==
    [context EXCEPT !.loading = TRUE, !.error = Null,
                    !.fetchQuizzes = [pc |-> "pending", user |-> Some(user)]]

\* the auth listener reports a session: setUser, then QuizProvider's effect
\* calls fetchQuizzes
SignedIn ==
    /\ auth.user = Null
    /\ quizContext.fetchQuizzes.pc = "idle"
    /\ auth' = [auth EXCEPT !.user = Some(Teacher)]
    /\ quizContext' = StartFetchQuizzes(quizContext, Teacher)
    /\ UNCHANGED <<libCall, student, createQuizPage, quizzesTable, quizHistory>>

\* AuthProvider.logout, or the auth listener reports the end of the session:
\* setUser(null), then QuizProvider's effect clears quizzes
SignedOut ==
    /\ auth.user # Null
    /\ auth' = [auth EXCEPT !.user = Null]
    /\ quizContext' = [quizContext EXCEPT !.quizzes = <<>>]
    /\ UNCHANGED <<libCall, student, createQuizPage, quizzesTable, quizHistory>>

\* fetchQuizzes: the select returns the rows
FetchQuizzesData ==
    /\ quizContext.fetchQuizzes.pc = "pending"
    /\ quizContext' = [quizContext EXCEPT
            !.quizzes = FormattedQuizzes(quizzesTable, quizContext.fetchQuizzes.user[1]),
            !.loading = FALSE,
            !.fetchQuizzes = [pc |-> "idle", user |-> Null]]
    /\ UNCHANGED <<libCall, auth, student, createQuizPage, quizzesTable, quizHistory>>

\* fetchQuizzes: the select returns an error
FetchQuizzesError(message) ==
    /\ quizContext.fetchQuizzes.pc = "pending"
    /\ quizContext' = [quizContext EXCEPT
            !.error = Some(IF message # "" THEN message ELSE "Failed to fetch quizzes."),
            !.loading = FALSE,
            !.fetchQuizzes = [pc |-> "idle", user |-> Null]]
    /\ UNCHANGED <<libCall, auth, student, createQuizPage, quizzesTable, quizHistory>>

\* CreateQuizPage.handleInputChange for the quizTitle field; the form is
\* rendered only while loading is false
CreateQuizPage_handleInputChange(value) ==
    /\ ~createQuizPage.loading
    /\ createQuizPage' = [createQuizPage EXCEPT !.quizTitle = value]
    /\ UNCHANGED <<libCall, auth, student, quizzesTable, quizContext, quizHistory>>

\* the guards of CreateQuizPage.handleSubmit: the message of the one that
\* returns, Null when none does
SubmitGuardNoTrim(user, quizTitle) ==
    IF user = Null THEN Some("You must be logged in to create a quiz.")
    ELSE IF quizTitle = <<>> THEN Some("Please enter a Quiz Title.")
    ELSE Null

SubmitGuard(user, quizTitle) ==
    IF user = Null THEN Some("You must be logged in to create a quiz.")
    ELSE IF Trim(quizTitle) = <<>> THEN Some("Please enter a Quiz Title.")
    ELSE Null

\* CreateQuizPage.handleSubmit up to its first await
CreateQuizPage_handleSubmit ==
    /\ ~createQuizPage.loading
    /\ LET guard == SubmitGuard(auth.user, createQuizPage.quizTitle)
       IN IF guard # Null
          THEN createQuizPage' = [createQuizPage EXCEPT !.error = guard]
          ELSE createQuizPage' = [createQuizPage EXCEPT
                    !.loading = TRUE,
                    !.error = Null,
                    !.generatedQuiz = Null,
                    !.handleSubmit = [pc |-> "generating", user |-> auth.user,
                                      generation |-> "pending", quizData |-> Null,
                                      insert |-> "none", row |-> Null]]
    /\ UNCHANGED <<libCall, auth, student, quizzesTable, quizContext, quizHistory>>

SubmitFailedNoFinally(state, message) ==
    [state EXCEPT
        !.error = Some(IF message # "" THEN "Error: " \o message
                       ELSE "Error: Unknown error")]

\* handleSubmit's catch and finally
SubmitFailed(state, message) ==
    [state EXCEPT
        !.error = Some(IF message # "" THEN "Error: " \o message
                       ELSE "Error: Unknown error"),
        !.loading = FALSE]

\* generateQuiz returns a quiz: handleSubmit issues the insert
GenerateQuizReturns(quizData) ==
    /\ createQuizPage.handleSubmit.pc = "generating"
    /\ createQuizPage' = [createQuizPage EXCEPT
            !.handleSubmit = [@ EXCEPT !.pc = "inserting",
                                       !.generation = "returned",
                                       !.quizData = Some(quizData),
                                       !.insert = "pending"]]
    /\ UNCHANGED <<libCall, auth, student, quizzesTable, quizContext, quizHistory>>

\* generateQuiz throws: every failure leaves it as the same Error
GenerateQuizThrows ==
    /\ createQuizPage.handleSubmit.pc = "generating"
    /\ createQuizPage' = [SubmitFailed(createQuizPage,
                                       "Failed to generate quiz. See console for details.")
                          EXCEPT !.handleSubmit = [@ EXCEPT !.pc = "done",
                                                            !.generation = "failed"]]
    /\ UNCHANGED <<libCall, auth, student, quizzesTable, quizContext, quizHistory>>

\* the insert returns the new row
InsertReturnsRow ==
    /\ createQuizPage.handleSubmit.pc = "inserting"
    /\ quizzesTable.nextId <= MaxQuizzes
    /\ LET call == createQuizPage.handleSubmit
           id == quizzesTable.nextId
       IN /\ quizzesTable' =
                [rows |-> [k \in DOMAIN quizzesTable.rows \cup {id} |->
                              IF k = id
                              THEN [quiz_data |-> call.quizData[1], user_id |-> call.user[1]]
                              ELSE quizzesTable.rows[k]],
                 nextId |-> id + 1]
          /\ createQuizPage' = [createQuizPage EXCEPT
                !.generatedQuiz = Some([title |-> call.quizData[1].title, id |-> id]),
                !.loading = FALSE,
                !.handleSubmit = [@ EXCEPT !.pc = "done", !.insert = "ok", !.row = Some(id)]]
    /\ UNCHANGED <<libCall, auth, student, quizContext, quizHistory>>

\* the insert returns an error
InsertReturnsError(message) ==
    /\ createQuizPage.handleSubmit.pc = "inserting"
    /\ createQuizPage' = [SubmitFailed(createQuizPage, message)
                          EXCEPT !.handleSubmit = [@ EXCEPT !.pc = "done",
                                                            !.insert = "error"]]
    /\ UNCHANGED <<libCall, auth, student, quizzesTable, quizContext, quizHistory>>

\* QuizHistory.handleDeleteConfirm, from the row of a listed quiz
handleDeleteConfirm(quizId) ==
    /\ \E k \in DOMAIN quizContext.quizzes : quizContext.quizzes[k].id = quizId
    /\ quizHistory' = [quizHistory EXCEPT !.confirmDelete = Some(quizId)]
    /\ UNCHANGED <<libCall, auth, student, createQuizPage, quizzesTable, quizContext>>

\* the Cancel button of the confirmation modal
CancelDelete ==
    /\ quizHistory.confirmDelete # Null
    /\ quizHistory' = [quizHistory EXCEPT !.confirmDelete = Null]
    /\ UNCHANGED <<libCall, auth, student, createQuizPage, quizzesTable, quizContext>>

\* what the promise of deleteQuiz does once the delete has answered with or
\* without an error, "resolved" or "rejected": the error thrown in the try is
\* caught by the catch of the same function
Settles(error) == "resolved"

\* performDelete after `await deleteQuiz(id)`: the try's rest or the catch,
\* then the finally
AfterDeleteQuiz(history, settled, reason) ==
    [history EXCEPT
        !.toast = IF settled = "resolved"
                  THEN Some([type |-> "success", message |-> "Quiz deleted."])
                  ELSE Some([type |-> "error",
                             message |-> IF reason # "" THEN reason
                                         ELSE "Failed to delete quiz."]),
        !.deletingId = Null,
        !.confirmDelete = Null]

\* QuizHistory.performDelete up to the answer of the table: deleteQuiz rejects
\* at once without a user, else it issues the delete
performDelete ==
    /\ quizHistory.confirmDelete # Null
    /\ quizHistory.deletingId # quizHistory.confirmDelete
    /\ quizContext.deleteQuiz.pc # "deleting"
    /\ LET id == quizHistory.confirmDelete[1]
       IN IF auth.user = Null
          THEN /\ quizContext' = [quizContext EXCEPT
                      !.deleteQuiz = [NoDelete EXCEPT
                                        !.pc = "rejected",
                                        !.id = Some(id),
                                        !.reason = Some("User not authenticated")]]
               /\ quizHistory' = AfterDeleteQuiz(quizHistory, "rejected",
                                                 "User not authenticated")
          ELSE /\ quizContext' = [quizContext EXCEPT
                      !.deleteQuiz = [NoDelete EXCEPT !.pc = "deleting", !.id = Some(id)]]
               /\ quizHistory' = [quizHistory EXCEPT !.deletingId = Some(id)]
    /\ UNCHANGED <<libCall, auth, student, createQuizPage, quizzesTable>>

\* the rows without the row of id
WithoutRow(rows, id) == [k \in DOMAIN rows \ {id} |-> rows[k]]

\* the delete answers: deleteQuiz settles and performDelete goes on in the
\* same task
DeleteAnswered(error, message) ==
    LET id == quizContext.deleteQuiz.id[1]
        settled == Settles(error)
    IN /\ quizContext' = [quizContext EXCEPT
              !.deleteQuiz = [@ EXCEPT
                    !.pc = settled,
                    !.response = IF error THEN "error" ELSE "ok",
                    !.alert = IF error /\ settled = "resolved"
                              THEN Some("Failed to delete quiz. Please try again.")
                              ELSE Null,
                    !.reason = IF settled = "rejected" THEN Some(message) ELSE Null],
              !.quizzes = IF settled = "resolved" THEN FilterOut(@, id) ELSE @]
       /\ quizHistory' = AfterDeleteQuiz(quizHistory, settled, message)

\* the delete returns without error: the row is gone
DeleteReturnsOk ==
    /\ quizContext.deleteQuiz.pc = "deleting"
    /\ quizzesTable' = [quizzesTable EXCEPT
            !.rows = WithoutRow(@, quizContext.deleteQuiz.id[1])]
    /\ DeleteAnswered(FALSE, "")
    /\ UNCHANGED <<libCall, auth, student, createQuizPage>>

\* the delete returns an error: the row stays
DeleteReturnsError(message) ==
    /\ quizContext.deleteQuiz.pc = "deleting"
    /\ DeleteAnswered(TRUE, message)
    /\ UNCHANGED <<libCall, auth, student, createQuizPage, quizzesTable>>

\* the dashboard with the session check over and nobody logged in
InitAdmin ==
    /\ InitDashboard
    /\ auth = [user |-> Null, loading |-> FALSE]
    /\ location = AdminPath
    /\ page = "AdminLayout"
    /\ homePage = InitHomePage
    /\ quizPage = InitQuizPage
    /\ navigation = Navigation("open", AdminPath, <<>>)
    /\ fetchQuiz = NoFetch
    /\ imageBatch = "none"
    /\ imageRequests = <<>>

NextAdmin ==
    \/ SignedIn
    \/ SignedOut
    \/ FetchQuizzesData
    \/ \E message \in ApiMessages : FetchQuizzesError(message)
    \/ \E value \in TitleInputs : CreateQuizPage_handleInputChange(value)
    \/ CreateQuizPage_handleSubmit
    \/ \E quizData \in GeneratedQuizzes : GenerateQuizReturns(quizData)
    \/ GenerateQuizThrows
    \/ InsertReturnsRow
    \/ \E message \in ApiMessages : InsertReturnsError(message)
    \/ \E quizId \in 1..MaxQuizzes : handleDeleteConfirm(quizId)
    \/ CancelDelete
    \/ performDelete
    \/ DeleteReturnsOk
    \/ \E message \in ApiMessages : DeleteReturnsError(message)

SpecAdmin == InitAdmin /\ [][NextAdmin]_vars

\* ---------------------------------------------------------------- generateQuiz

\* A JSON text is a sequence of tokens: " " is white space, "null" and "5" are
\* literals, "{" and "}" enclose the members of an object, and a member token
\* stands for one name with its value.

TitleMembers == {"title:Q", "title:"}

QuestionsMembers == {"questions:[q]", "questions:[]", "questions:5"}

\* the value of the title member of an object: undefined when absent
TitleOf(members) ==
    IF \E k \in DOMAIN members : members[k] = "title:Q" THEN Some(<<"Q">>)
    ELSE IF \E k \in DOMAIN members : members[k] = "title:" THEN Some(<<>>)
    ELSE Null

\* the value of the questions member: "undefined", "number", or the array
QuestionsOf(members) ==
    IF \E k \in DOMAIN members : members[k] = "questions:[q]"
    THEN [kind |-> "array", items |-> <<"q">>]
    ELSE IF \E k \in DOMAIN members : members[k] = "questions:[]"
    THEN [kind |-> "array", items |-> <<>>]
    ELSE IF \E k \in DOMAIN members : members[k] = "questions:5"
    THEN [kind |-> "number", items |-> <<>>]
    ELSE [kind |-> "undefined", items |-> <<>>]

JsonNull == [kind |-> "null", title |-> Null, questions |-> [kind |-> "undefined", items |-> <<>>]]

JsonNumber == [kind |-> "number", title |-> Null, questions |-> [kind |-> "undefined", items |-> <<>>]]

\* JSON.parse: the value, or Null for a SyntaxError; white space around the
\* text is allowed
ParseJSON(text) ==
    LET t == Trim(text)
    IN IF t = <<"null">> THEN Some(JsonNull)
       ELSE IF t = <<"5">> THEN Some(JsonNumber)
       ELSE IF /\ Len(t) >= 2
               /\ t[1] = "{"
               /\ t[Len(t)] = "}"
               /\ \A k \in 2..(Len(t) - 1) : t[k] \in TitleMembers \cup QuestionsMembers
       THEN Some([kind |-> "object",
                  title |-> TitleOf(SubSeq(t, 2, Len(t) - 1)),
                  questions |-> QuestionsOf(SubSeq(t, 2, Len(t) - 1))])
       ELSE Null

\* !parsed || !parsed.title || !Array.isArray(parsed.questions)
InvalidStructure(parsed) ==
    \/ parsed.kind = "null"
    \/ parsed.title = Null
    \/ parsed.title = Some(<<>>)
    \/ parsed.questions.kind # "array"

Returned(value) == [status |-> "returned", value |-> Some(value), message |-> ""]

Threw(message) == [status |-> "threw", value |-> Null, message |-> message]

\* the try block of generateQuiz for a response of the model: what it returns
\* or the error it throws
GenerateQuizTry(response) ==
    IF response.callFails THEN Threw("fetch failed")
    ELSE LET jsonText == IF response.text = Null THEN Null
                         ELSE Some(Trim(response.text[1]))
         IN IF jsonText = Null \/ jsonText = Some(<<>>)
            THEN LET candText == response.candidate
                 IN IF candText = Null \/ candText = Some(<<>>)
                    THEN Threw("No JSON text returned from Gemini.")
                    ELSE LET parsed == ParseJSON(candText[1])
                         IN IF parsed = Null THEN Threw("SyntaxError")
                            ELSE IF InvalidStructure(parsed[1])
                            THEN Threw("Invalid quiz structure received from Gemini (candidate path).")
                            ELSE Returned(parsed[1])
            ELSE LET quizData == ParseJSON(jsonText[1])
                 IN IF quizData = Null THEN Threw("SyntaxError")
                    ELSE IF InvalidStructure(quizData[1])
                            \/ Len(quizData[1].questions.items) = 0
                    THEN Threw("Invalid quiz structure received from Gemini API.")
                    ELSE Returned(quizData[1])

\* a catch that throws the error on as it is
RethrowSame(attempt) ==
    IF attempt.status = "threw"
    THEN [status |-> "rejected", value |-> Null, message |-> attempt.message]
    ELSE [attempt EXCEPT !.status = "resolved"]

\* the catch of generateQuiz: every error becomes the same new Error
WrapError(attempt) ==
    IF attempt.status = "threw"
    THEN [status |-> "rejected", value |-> Null,
          message |-> "Failed to generate quiz. See console for details."]
    ELSE [attempt EXCEPT !.status = "resolved"]

\* how the promise of generateQuiz settles for a response
generateQuiz(response) == WrapError(GenerateQuizTry(response))

\* the texts of a response
GeminiTexts ==
    {<<>>, <<" ">>, <<"x">>, <<"null">>, <<"5">>, <<"{", "}">>,
     <<"{", "title:Q", "}">>,
     <<"{", "title:Q", "questions:5", "}">>,
     <<"{", "title:", "questions:[q]", "}">>,
     <<"{", "title:Q", "questions:[]", "}">>,
     <<" ", "{", "title:Q", "questions:[q]", "}", " ">>,
     <<"{", "questions:[q]", "title:Q", "}">>}

\* what ai.models.generateContent answers: it throws, or a response with or
\* without a text and with or without a first candidate text
GeminiResponses ==
    [callFails : BOOLEAN,
     text : {Null} \cup {Some(t) : t \in GeminiTexts},
     candidate : {Null} \cup {Some(t) : t \in GeminiTexts}]

\* the rest of the state while one function is called
Elsewhere ==
    /\ createQuizPage = InitCreateQuizPage
    /\ quizzesTable = InitQuizzesTable
    /\ quizContext = InitQuizContext
    /\ quizHistory = InitQuizHistory
    /\ auth = [user |-> Null, loading |-> FALSE]
    /\ location = RootPath
    /\ page = "HomePage"
    /\ homePage = InitHomePage
    /\ quizPage = InitQuizPage
    /\ navigation = Navigation("open", RootPath, <<>>)
    /\ fetchQuiz = NoFetch
    /\ imageBatch = "none"
    /\ imageRequests = <<>>

InitGenerate ==
    /\ Elsewhere
    /\ \E response \in GeminiResponses : libCall = [fn |-> "generateQuiz", input |-> Some(response), outcome |-> Null]

\* generateQuiz settles
GenerateQuizSettles ==
    /\ libCall.fn = "generateQuiz"
    /\ libCall.outcome = Null
    /\ libCall' = [libCall EXCEPT !.outcome = Some(generateQuiz(libCall.input[1]))]
    /\ UNCHANGED <<auth, student, dashboard>>

NextGenerate == GenerateQuizSettles

SpecGenerate == InitGenerate /\ [][NextGenerate]_vars

\* ---------------------------------------------------------------- passages

\* A quiz with its passages: passage and passages are undefined (Null) or
\* Some value, a passage is a string, and passage_index is undefined or Some
\* number; the array indexes of the source are 0-based.

MaxPassages == 2

PassageTexts == {<<>>, <<"A">>, <<"B">>}

LegacyPassages == {Null, Some(<<>>), Some(<<"L">>)}

PassageArrays == UNION {[1..n -> PassageTexts] : n \in 0..MaxPassages}

PassageIndexes == {Null} \cup {Some(i) : i \in (-1)..MaxPassages}

PassageQuestions == UNION {[1..n -> [passage_index : PassageIndexes]] : n \in 1..MaxQuestions}

PassageQuizzes ==
    [passage : LegacyPassages,
     passages : {Null} \cup {Some(a) : a \in PassageArrays},
     questions : PassageQuestions]

\* array[index] of JavaScript: undefined outside the array
ElementAt(array, index) ==
    IF index >= 0 /\ index < Len(array) THEN Some(array[index + 1]) ELSE Null

\* value || null for a string that may be undefined
OrNull(value) == IF value = Null \/ value = Some(<<>>) THEN Null ELSE value

\* quiz.passages && quiz.passages.length > 0
HasPassages(quiz) == quiz.passages # Null /\ Len(quiz.passages[1]) > 0

\* a test of the passage_index for truth, which 0 fails
HasPassageIndexTruthy(question) ==
    question.passage_index # Null /\ question.passage_index[1] # 0

\* question.passage_index !== undefined
HasPassageIndex(question) == question.passage_index # Null

getPassageForQuestion(quiz, questionIndex) ==
    LET question == quiz.questions[questionIndex + 1]
    IN IF HasPassageIndex(question) /\ HasPassages(quiz)
       THEN OrNull(ElementAt(quiz.passages[1], question.passage_index[1]))
       ELSE OrNull(quiz.passage)

\* the passages array is kept and its first passage becomes the legacy passage
normalizeQuizData(quizData) ==
    IF HasPassages(quizData)
    THEN [quizData EXCEPT !.passage = Some(quizData.passages[1][1])]
    ELSE quizData

InitPassage ==
    /\ Elsewhere
    /\ \E quiz \in PassageQuizzes : \E questionIndex \in 0..(Len(quiz.questions) - 1) :
           libCall = [fn |-> "getPassageForQuestion",
                      input |-> Some([quiz |-> quiz, questionIndex |-> questionIndex]),
                      outcome |-> Null]

\* the generated quiz passes through normalizeQuizData before it is used
NormalizeQuizData ==
    /\ libCall.fn = "getPassageForQuestion"
    /\ libCall.outcome = Null
    /\ normalizeQuizData(libCall.input[1].quiz) # libCall.input[1].quiz
    /\ libCall' = [libCall EXCEPT !.input[1].quiz = normalizeQuizData(@)]
    /\ UNCHANGED <<auth, student, dashboard>>

\* getPassageForQuestion returns
GetPassageForQuestion ==
    /\ libCall.fn = "getPassageForQuestion"
    /\ libCall.outcome = Null
    /\ libCall' = [libCall EXCEPT !.outcome =
           Some(getPassageForQuestion(libCall.input[1].quiz, libCall.input[1].questionIndex))]
    /\ UNCHANGED <<auth, student, dashboard>>

NextPassage == NormalizeQuizData \/ GetPassageForQuestion

SpecPassage == InitPassage /\ [][NextPassage]_vars

\* ---------------------------------------------------------------- claims

\* s without the spaces at its two ends
WithoutOuterSpaces(s) ==
    LET inked == {i \in DOMAIN s : s[i] # " "}
    IN IF inked = {} THEN <<>>
       ELSE SubSeq(s, CHOOSE i \in inked : \A j \in inked : i <= j,
                      CHOOSE i \in inked : \A j \in inked : i >= j)

\* s with its capitals replaced by small letters
InSmallLetters(s) ==
    [i \in DOMAIN s |-> IF s[i] = "A" THEN "a" ELSE IF s[i] = "B" THEN "b" ELSE s[i]]

SameAnswer(given, correct) ==
    InSmallLetters(WithoutOuterSpaces(given)) = InSmallLetters(WithoutOuterSpaces(correct))

\* C1: the result handleSubmit sets has score = the number of multiple-choice
\* and fill-in-the-blank questions whose recorded answer (the empty string when
\* missing) equals correct_answer after trimming and lower-casing both,
\* gradableQuestions = the number of questions of those two types, and total =
\* the number of questions; essay questions count in neither.
C1_ScoreIsLocalCount ==
    quizPage.result # Null =>
        LET result == quizPage.result[1]
            questions == quizPage.quiz[1].questions
            gradable == {i \in DOMAIN questions :
                            questions[i].type \in {"multiple-choice", "fill-in-the-blank"}}
            given(i) == IF i \in DOMAIN quizPage.answers THEN quizPage.answers[i] ELSE <<>>
            right == {i \in gradable : SameAnswer(given(i), questions[i].correct_answer)}
        IN /\ result.score = Cardinality(right)
           /\ result.gradableQuestions = Cardinality(gradable)
           /\ result.total = Len(questions)

\* C1 witness: a submitted quiz of an essay and a gradable question, the
\* gradable one answered right only after trimming and lower-casing
C1_Witness ==
    /\ quizPage.result # Null
    /\ quizPage.result[1].total = 2
    /\ quizPage.result[1].gradableQuestions = 1
    /\ quizPage.result[1].score = 1
    /\ \E i \in DOMAIN quizPage.answers :
          /\ quizPage.quiz[1].questions[i].type = FillInTheBlank
          /\ quizPage.answers[i] = <<"A", " ">>
          /\ quizPage.quiz[1].questions[i].correct_answer = <<" ", "A", " ">>

\* C2: the URL getShareableLink gives for a quiz id on the dashboard, submitted
\* in the HomePage form, makes handleLinkSubmit navigate to exactly /quiz/<id>,
\* the route whose page fetches the quiz with that id.
C2_LinkRoundTrip ==
    \A id \in QuizIds \cup {IdGone} :
        /\ LinkOutcome(getShareableLink(id, AdminHref)).navigate
              = Some(<<"/", "q", "u", "i", "z", "/">> \o id)
        /\ (navigation.by = "handleLinkSubmit"
               /\ navigation.link = getShareableLink(id, AdminHref))
           => /\ navigation.to = <<"/", "q", "u", "i", "z", "/">> \o id
              /\ location = navigation.to
              /\ page = "QuizPage"
              /\ fetchQuiz.status # "idle"
              /\ fetchQuiz.id = id

\* C2 witness: the pasted link of quiz 7 was submitted and the quiz page has
\* fetched that quiz
C2_Witness ==
    /\ navigation.by = "handleLinkSubmit"
    /\ navigation.link = Origin \o <<"#", "/", "q", "u", "i", "z", "/", "7">>
    /\ quizPage.quiz # Null
    /\ quizPage.quiz[1].id = <<"7">>

\* C3: with nobody logged in, opening /quiz/<id> still mounts the quiz page and
\* issues the fetch by id, a fetched quiz is displayed and can be submitted;
\* a visitor is sent elsewhere than asked only from /admin, never from
\* /quiz/:quizId.
C3_QuizNeedsNoLogin ==
    /\ (~auth.loading /\ MatchRoute(navigation.to) = "QuizPage")
       => /\ location = navigation.to
          /\ page = "QuizPage"
          /\ fetchQuiz.status # "idle"
          /\ fetchQuiz.id = SubSeq(location, 7, Len(location))
    /\ (page = "QuizPage" /\ quizPage.quiz # Null) => QuizView \in {"form", "results"}
    /\ (page = "QuizPage" /\ quizPage.quiz # Null /\ quizPage.result = Null)
       => ENABLED QuizPage_handleSubmit
    /\ (~auth.loading /\ auth.user = Null /\ location # navigation.to)
       => navigation.to = <<"/", "a", "d", "m", "i", "n">>

\* C3 witness: a visitor who is not logged in has submitted a quiz
C3_Witness ==
    /\ ~auth.loading
    /\ auth.user = Null
    /\ page = "QuizPage"
    /\ quizPage.result # Null

\* the requests of the batch whose image failed to load, or whose timer fired
\* before the image loaded
FailedRequests ==
    {i \in DOMAIN imageRequests : imageRequests[i].first \in {"error", "timeout"}}

\* C4: when the image of a question fails to load or the timeout fires first,
\* generateQuestionImage resolves with the placeholder built from the
\* description, and after the batch that question's image_url is the placeholder.
C4_PlaceholderOnFailure ==
    /\ \A i \in FailedRequests :
          imageRequests[i].settled = Some(PlaceholderImage(imageRequests[i].description))
    /\ imageBatch = "done"
       => \A i \in FailedRequests :
             quizPage.quiz[1].questions[i].image_url = imageRequests[i].settled

\* a description with a character that is not a space
NonBlank(description) == \E k \in DOMAIN description : description[k] # " "

\* C5: the batch starts one request for every question with a non-blank
\* image_description, all at once; image_url is written in one update after
\* every request has settled, so no question has an image_url while a request
\* of the batch is pending; each result lands on the index it was requested for.
C5_FanOutFanIn ==
    (page = "QuizPage" /\ quizPage.quiz # Null) =>
        LET questions == quizPage.quiz[1].questions
            wanted == {i \in DOMAIN questions : NonBlank(questions[i].image_description)}
        IN /\ (wanted # {}) => (imageBatch # "none" /\ DOMAIN imageRequests = wanted)
           /\ (wanted = {}) => (imageBatch = "none" /\ imageRequests = <<>>)
           /\ (\E i \in DOMAIN imageRequests : imageRequests[i].settled = Null)
              => /\ imageBatch = "awaiting"
                 /\ \A j \in DOMAIN questions : questions[j].image_url = Null
           /\ (imageBatch = "done")
              => /\ \A i \in wanted :
                       /\ questions[i].image_url = imageRequests[i].settled
                       /\ imageRequests[i].description = questions[i].image_description
                       /\ questions[i].image_url[1].kind \in {"pollinations", "placeholder"}
                 /\ \A j \in DOMAIN questions \ wanted : questions[j].image_url = Null

\* C5 witness: a batch of two requests is over, one ended with the generated
\* image and the other with the placeholder
C5_Witness ==
    /\ imageBatch = "done"
    /\ \E i, j \in DOMAIN imageRequests :
          /\ quizPage.quiz[1].questions[i].image_url[1].kind = "pollinations"
          /\ quizPage.quiz[1].questions[j].image_url[1].kind = "placeholder"
          /\ imageRequests[j].first = "timeout"

\* whether question i is shown as loading: imageLoadingStates[i]
IsImageLoading(i) ==
    i \in DOMAIN quizPage.imageLoadingStates /\ quizPage.imageLoadingStates[i]

\* C6: while a batch has unsettled requests, imageLoadingStates[i] is true
\* exactly for the questions with a non-blank image_description; after the
\* batch it is empty; and every question that is loading eventually is not.
C6_PerItemLoading ==
    /\ [](imageBatch = "awaiting"
            => \A i \in StoredIndexes :
                  IsImageLoading(i)
                    <=> (i \in DOMAIN quizPage.quiz[1].questions
                         /\ NonBlank(quizPage.quiz[1].questions[i].image_description)))
    /\ [](imageBatch # "awaiting" => quizPage.imageLoadingStates = <<>>)
    /\ \A i \in StoredIndexes : IsImageLoading(i) ~> ~IsImageLoading(i)

\* C7: once fetched, the quiz is in state and isLoading is false while image
\* requests are pending, the form can be filled in and submitted meanwhile, and
\* the result does not depend on whether the images have settled.
C7_ImagesDoNotBlock ==
    /\ imageBatch = "awaiting"
       => /\ quizPage.quiz # Null
          /\ ~quizPage.isLoading
          /\ quizPage.result = Null
             => /\ ENABLED QuizPage_handleSubmit
                /\ \A i \in DOMAIN quizPage.quiz[1].questions :
                      ENABLED QuizPage_handleInputChange(i, <<"a">>)
    /\ (page = "QuizPage" /\ quizPage.quiz # Null)
       => LET stored == [id |-> quizPage.quiz[1].id,
                         questions |-> QuizStore[quizPage.quiz[1].id].questions]
          IN /\ ComputeResult(quizPage.quiz[1], quizPage.answers)
                   = ComputeResult(stored, quizPage.answers)
             /\ quizPage.result # Null
                => quizPage.result[1] = ComputeResult(stored, quizPage.result[1].answers)

\* C7 witness: a quiz was submitted while its image requests were pending
C7_Witness ==
    /\ imageBatch = "awaiting"
    /\ quizPage.result # Null
    /\ quizPage.result[1].score > 0

\* C8: CreateQuizPage.handleSubmit issues the insert only after generateQuiz
\* returned a quiz and never after it failed; generatedQuiz is set only when the
\* insert returned without error and carries the id of the inserted row; after
\* a failure generatedQuiz is null and an error is set; loading is false once
\* the call is over.
C8_CreatedOnlyWhenPersisted ==
    LET state == createQuizPage
        call == state.handleSubmit
    IN /\ call.insert # "none" => (call.generation = "returned" /\ call.quizData # Null)
       /\ call.generation \in {"pending", "failed"} => call.insert = "none"
       /\ state.generatedQuiz # Null
          => /\ call.insert = "ok"
             /\ call.row = Some(state.generatedQuiz[1].id)
             /\ state.generatedQuiz[1].id < quizzesTable.nextId
             /\ state.generatedQuiz[1].id \in DOMAIN quizzesTable.rows
                => quizzesTable.rows[state.generatedQuiz[1].id].quiz_data.title
                      = state.generatedQuiz[1].title
       /\ (call.generation = "failed" \/ call.insert = "error")
          => (state.generatedQuiz = Null /\ state.error # Null /\ ~state.loading)
       /\ call.insert = "ok" => ~state.loading
       /\ state.loading <=> call.pc \in {"generating", "inserting"}

\* C8 witness: a quiz is shown as generated and its row is in the table
C8_Witness ==
    /\ createQuizPage.generatedQuiz # Null
    /\ createQuizPage.generatedQuiz[1].id \in DOMAIN quizzesTable.rows
    /\ createQuizPage.handleSubmit.insert = "ok"

\* a title without a character other than the space
BlankTitle(title) == \A k \in DOMAIN title : title[k] = " "

\* C9: when no user is logged in, or the title is blank, handleSubmit sets the
\* matching error message, issues neither a generation request nor an insert,
\* and leaves loading and generatedQuiz as they were.
C9_CreationGuards ==
    [][(CreateQuizPage_handleSubmit
          /\ (auth.user = Null \/ BlankTitle(createQuizPage.quizTitle)))
       => /\ createQuizPage'.error =
                IF auth.user = Null
                THEN Some("You must be logged in to create a quiz.")
                ELSE Some("Please enter a Quiz Title.")
          /\ createQuizPage'.handleSubmit = createQuizPage.handleSubmit
          /\ createQuizPage'.loading = createQuizPage.loading
          /\ createQuizPage'.generatedQuiz = createQuizPage.generatedQuiz
          /\ quizzesTable' = quizzesTable]_vars

\* C9 witness: handleSubmit ran without a user while an earlier quiz was
\* shown, and the quiz is still shown next to the message
C9_Witness ==
    /\ auth.user = Null
    /\ createQuizPage.error = Some("You must be logged in to create a quiz.")
    /\ createQuizPage.generatedQuiz # Null
    /\ ~createQuizPage.loading

\* C10: the promise of deleteQuiz rejects whenever the delete returned an
\* error, rejects with 'User not authenticated' without a user, and resolves
\* only when the delete succeeded.
C10_DeleteQuizThrowsOnFailure ==
    LET call == quizContext.deleteQuiz
    IN /\ call.response = "error" => call.pc = "rejected"
       /\ call.pc = "resolved" => call.response = "ok"
       /\ (call.pc = "rejected" /\ call.response = "none")
          => call.reason = Some("User not authenticated")

\* C11: once the user has become null, QuizProvider's quizzes list is empty and
\* stays empty while nobody is logged in, also when a fetchQuizzes request that
\* was started before the logout answers after it.
C11_ListClearedOnLogout ==
    auth.user = Null => quizContext.quizzes = <<>>

C13_CreatedQuizIsListed ==
    (/\ createQuizPage.generatedQuiz # Null
     /\ auth.user # Null
     /\ createQuizPage.generatedQuiz[1].id \in DOMAIN quizzesTable.rows
     /\ createQuizPage.handleSubmit.user = auth.user
     /\ quizContext.deleteQuiz.id # Some(createQuizPage.generatedQuiz[1].id)
     /\ quizContext.fetchQuizzes.pc = "idle"
     /\ quizContext.error = Null)
    => \E k \in DOMAIN quizContext.quizzes :
          quizContext.quizzes[k].id = createQuizPage.generatedQuiz[1].id

\* the text after the first '#' of s, empty when s has none
AfterFirstHash(s) ==
    LET marks == {i \in DOMAIN s : s[i] = "#"}
    IN IF marks = {} THEN <<>>
       ELSE SubSeq(s, (CHOOSE i \in marks : \A j \in marks : i <= j) + 1, Len(s))

\* whether the text is a full URL: it holds "://"
HasScheme(s) == \E i \in 1..(Len(s) - 2) : SubSeq(s, i, i + 2) = <<":", "/", "/">>

\* the path handleLinkSubmit is said to take from the text of the input
SubmittedPath(link) ==
    LET text == WithoutOuterSpaces(link)
    IN IF HasScheme(text) THEN AfterFirstHash(text)
       ELSE IF text # <<>> /\ text[1] = "#" THEN SubSeq(text, 2, Len(text))
       ELSE text

BeginsWithQuiz(path) ==
    Len(path) >= 6 /\ SubSeq(path, 1, 6) = <<"/", "q", "u", "i", "z", "/">>

\* C14: handleLinkSubmit navigates only to a path that begins with '/quiz/':
\* the hash without its '#' for a full URL, else the trimmed text less one
\* leading '#'; when that path does not begin with '/quiz/' it does not
\* navigate and shows an alert.
C14_LinkSubmitNavigatesOnlyToQuiz ==
    [][handleLinkSubmit
       => LET path == SubmittedPath(homePage.link)
          IN IF BeginsWithQuiz(path)
             THEN /\ navigation' = [by |-> "handleLinkSubmit", to |-> path,
                                    link |-> homePage.link]
                  /\ location' = path
             ELSE /\ location' = location
                  /\ page' = page
                  /\ navigation' = navigation
                  /\ homePage'.alert # Null]_vars

\* C14 witness: a text that is no URL was submitted and the page went to the
\* quiz path in it
C14_Witness ==
    /\ navigation.by = "handleLinkSubmit"
    /\ navigation.link = <<" ", "#", "/", "q", "u", "i", "z", "/", "7">>
    /\ location = <<"/", "q", "u", "i", "z", "/", "7">>

\* C15: on the results view the number announced as essay questions requiring
\* manual review equals the number of questions of type essay, and the note is
\* shown exactly when that number is positive.
C15_EssayNoteCountsEssays ==
    (page = "QuizPage" /\ quizPage.result # Null) =>
        LET questions == quizPage.quiz[1].questions
            essays == Cardinality({i \in DOMAIN questions : questions[i].type = "essay"})
            note == EssayNote(quizPage.result[1])
        IN /\ note # Null <=> essays > 0
           /\ note # Null => note[1] = essays

\* C15 witness: the results of a quiz of one essay and one gradable question
C15_Witness ==
    /\ page = "QuizPage"
    /\ quizPage.result # Null
    /\ Len(quizPage.quiz[1].questions) = 2
    /\ quizPage.quiz[1].questions[1].type = "essay"
    /\ quizPage.quiz[1].questions[2].type = "multiple-choice"
    /\ EssayNote(quizPage.result[1]) = <<1>>

\* C16: when the delete of performDelete has answered, the quiz is removed from
\* the local list and the 'Quiz deleted.' toast is shown only if the delete
\* succeeded; after an error the list is unchanged and the toast is an error
\* toast.
C16_PerformDeleteOnlyOnSuccess ==
    [][(quizContext.deleteQuiz.pc = "deleting" /\ quizContext'.deleteQuiz.pc # "deleting")
       => IF quizContext'.deleteQuiz.response = "ok"
          THEN /\ \A k \in DOMAIN quizContext'.quizzes :
                     quizContext'.quizzes[k].id # quizContext.deleteQuiz.id[1]
               /\ quizHistory'.toast = Some([type |-> "success", message |-> "Quiz deleted."])
          ELSE /\ quizContext'.quizzes = quizContext.quizzes
               /\ quizHistory'.toast # Null
               /\ quizHistory'.toast[1].type = "error"]_vars

\* C17: after an image batch, a question whose image generation failed (load
\* error or timeout first) has imageError true and is rendered with the "image
\* generation failed" description box, and a question whose image loaded has
\* imageError false and a non-empty image_url.
C17_PerItemErrorState ==
    (page = "QuizPage" /\ imageBatch = "done") =>
        \A i \in DOMAIN imageRequests :
            LET q == quizPage.quiz[1].questions[i]
            IN /\ imageRequests[i].first \in {"error", "timeout"}
                  => /\ q.imageError
                     /\ ImageSection(q, IsImageLoading(i)) = "failed"
               /\ imageRequests[i].first = "load"
                  => /\ ~q.imageError
                     /\ q.image_url # Null
                     /\ q.image_url[1].kind # "empty"


\* the text generateQuiz reads: the trimmed text field, or the first
\* candidate's text when that field is missing or blank
TextRead(response) ==
    IF response.text # Null /\ Trim(response.text[1]) # <<>>
    THEN response.text
    ELSE response.candidate

FromCandidate(response) == response.text = Null \/ Trim(response.text[1]) = <<>>

HasTitleAndQuestionList(value) ==
    /\ value.kind = "object"
    /\ value.title \notin {Null, Some(<<>>)}
    /\ value.questions.kind = "array"

\* one of the failures: the AI call failed, no text in either place, a text
\* that is not JSON, or a value that fails the structure check of its path
GenerationFails(response) ==
    \/ response.callFails
    \/ TextRead(response) \in {Null, Some(<<>>)}
    \/ ParseJSON(TextRead(response)[1]) = Null
    \/ ~HasTitleAndQuestionList(ParseJSON(TextRead(response)[1])[1])
    \/ /\ ~FromCandidate(response)
       /\ ParseJSON(TextRead(response)[1])[1].questions.items = <<>>

\* C18: a settled generateQuiz call either resolved with the value parsed from
\* the text it read, which has a title and a list of questions, or rejected
\* with exactly 'Failed to generate quiz. See console for details.' and no
\* value; it rejects exactly when the AI call failed, no text was found in the
\* text field or the first candidate, the text was not valid JSON, or the
\* structure check failed.
C18_GenerateQuizReturnsOrWraps ==
    libCall.fn = "generateQuiz" /\ libCall.outcome # Null =>
        LET response == libCall.input[1]
            outcome == libCall.outcome[1]
        IN IF GenerationFails(response)
           THEN /\ outcome.status = "rejected"
                /\ outcome.message = "Failed to generate quiz. See console for details."
                /\ outcome.value = Null
           ELSE /\ outcome.status = "resolved"
                /\ outcome.value = ParseJSON(TextRead(response)[1])
                /\ HasTitleAndQuestionList(outcome.value[1])

\* a call whose text is JSON without a list of questions has been rejected
C18_Witness ==
    /\ libCall.fn = "generateQuiz"
    /\ libCall.outcome # Null
    /\ ~libCall.input[1].callFails
    /\ libCall.input[1].text = Some(<<"{", "title:Q", "questions:5", "}">>)
    /\ libCall.outcome[1].status = "rejected"


\* the passage a question's passage_index points at in the passages array
LinkedPassage(quiz, question) ==
    LET i == question.passage_index[1]
    IN IF i \in 0..(Len(quiz.passages[1]) - 1) THEN Some(quiz.passages[1][i + 1]) ELSE Null

\* a passage with text in it
ToShow(passage) == passage # Null /\ passage[1] # <<>>

\* C19: for a question with a passage_index in a quiz whose passages array is
\* not empty, getPassageForQuestion returns the passage of the array at that
\* index; in every other case it returns the quiz's single legacy passage; it
\* returns null only when the passage it was to return, the linked one in the
\* first case and the legacy one otherwise, is missing or empty.
C19_PassageForQuestion ==
    libCall.fn = "getPassageForQuestion" /\ libCall.outcome # Null =>
        LET quiz == libCall.input[1].quiz
            question == quiz.questions[libCall.input[1].questionIndex + 1]
            returned == libCall.outcome[1]
            linked == /\ question.passage_index # Null
                      /\ quiz.passages # Null
                      /\ quiz.passages[1] # <<>>
            source == IF linked THEN LinkedPassage(quiz, question) ELSE quiz.passage
        IN /\ (linked /\ ToShow(source)) => returned = LinkedPassage(quiz, question)
           /\ (~linked /\ ToShow(source)) => returned = quiz.passage
           /\ returned = Null <=> ~ToShow(source)

\* a question linked to the first passage of two got that passage although the
\* legacy passage is another text
C19_Witness ==
    /\ libCall.fn = "getPassageForQuestion"
    /\ libCall.outcome = Some(Some(<<"A">>))
    /\ libCall.input[1].quiz.passage = Some(<<"L">>)
    /\ libCall.input[1].quiz.passages = Some(<<<<"A">>, <<"B">>>>)
    /\ libCall.input[1].quiz.questions[libCall.input[1].questionIndex + 1].passage_index = Some(0)

====
